---- MODULE Spec2Model ----
(***************************************************************************)
(* Model of the conversion pipeline of server.js: the handler of           *)
(* POST /api/convert/:databaseId, the four format strategies, the progress *)
(* registry (global.progressStreams) with the SSE endpoint                 *)
(* GET /api/progress/:conversionId, and sendProgress.                      *)
(*                                                                         *)
(* Node runs the handlers on one thread: the code between two awaits is    *)
(* one atomic step.  Every action below is the continuation that runs when *)
(* the awaited operation named by pc settles, up to the next await.        *)
(***************************************************************************)
EXTENDS Integers, Sequences, FiniteSets, TLC

VARIABLES
    notion,           \* TRUE iff the record-source client was initialised
    jobs,             \* conversion jobs: one record per POST /api/convert
    progressStreams,  \* global.progressStreams: correlation id -> channel
    consumers,        \* SSE consumers (GET /api/progress/:conversionId)
    disk,             \* names of the files present in the output directory
    probe             \* one call of a pure helper: its input and its result

vars == <<notion, jobs, progressStreams, consumers, disk, probe>>

----------------------------------------------------------------------------
(* Bounds of the model *)

\* largest number of record-page requests one job makes
MaxFetch == 3

\* largest number of records the record source holds for one database
MaxRecords == 14

\* longest string handed to a text helper on its own
MaxText == 3

\* most content blocks of one record
MaxBlocks == 2

\* most properties of one record besides its title
MaxProps == 2

\* most records of a batch rendered into one aggregate document
MaxRows == 2

Jobs == {1}
Consumers == {1}
Ids == {1}
Cursors == {1, 2}

NoId == 0         \* conversionId absent from the request body
NoConsumer == 0   \* progressStreams has no entry
NoCursor == 0     \* next_cursor null / start_cursor undefined

Formats == {"separate-pages", "dataview-table", "markdown-table", "obsidian-base"}

----------------------------------------------------------------------------
(* Records of the record source.  A record is named by its id; its title   *)
(* runs, whether its properties are missing, and whether its block listing *)
(* is reachable are attributes of the id.                                  *)

BulkRecords == <<20, 11, 12, 13, 14, 15, 16, 17, 18, 19>>

\* the arrays a record-page response may carry in `results`
SampleResults == { <<>>, <<1, 3, 2, 4>>, BulkRecords }

\* page.properties is undefined: Object.values(page.properties) raises
Malformed(id) == id = 4

\* notion.blocks.children.list rejects for this record
BlocksUnreachable(id) == id = 3

\* the runs of the record's title property (<<>>: no title run)
TitleRuns(id) ==
    CASE id = 1 -> << <<"a", " ", "b">> >>
      [] id = 2 -> << <<"a", ":", "b">> >>
      [] id = 3 -> << <<"c">> >>
      [] id = 5 -> << <<"c">>, <<"d">> >>
      [] id = 6 -> << <<"a", "|", "b">> >>
      [] OTHER  -> << >>

DatabaseTitle == <<"D", "B">>

\* the names of the record documents for which fs.writeFile rejects
Unwritable == { <<"P", "a", "g", "e", "_", "20", ".md">> }

----------------------------------------------------------------------------
(* Text escaping and naming *)

ReservedChars == {"<", ">", ":", "\"", "/", "\\", "|", "?", "*"}
Whitespace == {" ", "\n", "\t"}

\* filename.replace(/[<>:"/\\|?*]/g, '_')
ReplaceReserved(s) == [i \in 1..Len(s) |-> IF s[i] \in ReservedChars THEN "_" ELSE s[i]]

\* .replace(/\s/g, '_'): every whitespace character on its own
CollapseEach(s) == [i \in 1..Len(s) |-> IF s[i] \in Whitespace THEN "_" ELSE s[i]]

RECURSIVE CollapseWhitespace(_)
\* .replace(/\s+/g, '_')
CollapseWhitespace(s) ==
    IF s = <<>> THEN <<>>
    ELSE IF Head(s) \in Whitespace
         THEN IF Len(s) > 1 /\ s[2] \in Whitespace
              THEN CollapseWhitespace(Tail(s))
              ELSE <<"_">> \o CollapseWhitespace(Tail(s))
         ELSE <<Head(s)>> \o CollapseWhitespace(Tail(s))

sanitizeFilename(filename) == CollapseWhitespace(ReplaceReserved(filename))

\* titleProperty?.title?.[0]?.plain_text || `Page ${page.id}`
PageTitle(id) ==
    IF TitleRuns(id) # <<>> /\ TitleRuns(id)[1] # <<>>
    THEN TitleRuns(id)[1]
    ELSE <<"P", "a", "g", "e", " ", ToString(id)>>

\* `${sanitizeFilename(title)}.md`
PageFileName(id) == sanitizeFilename(PageTitle(id)) \o <<".md">>

\* `${sanitizeFilename(databaseTitle)}_Table.md`
TableFileName == sanitizeFilename(DatabaseTitle) \o <<"_Table.md">>

\* `${sanitizeFilename(databaseTitle)}.base`
BaseFileName == sanitizeFilename(DatabaseTitle) \o <<".base">>

----------------------------------------------------------------------------
(* Values.  A string is the sequence of its characters.  A value of the    *)
(* language is a string, a number, a boolean, null or undefined; Thrown    *)
(* stands for a call that raised instead of returning.                     *)

Str(s) == [t |-> "string", s |-> s, n |-> 0, b |-> FALSE]
Num(n) == [t |-> "number", s |-> <<>>, n |-> n, b |-> FALSE]
Bool(b) == [t |-> "boolean", s |-> <<>>, n |-> 0, b |-> b]
Null == [t |-> "null", s |-> <<>>, n |-> 0, b |-> FALSE]
Undefined == [t |-> "undefined", s |-> <<>>, n |-> 0, b |-> FALSE]
Thrown == [t |-> "thrown", s |-> <<>>, n |-> 0, b |-> FALSE]

\* if (value), value || ''
Truthy(v) ==
    CASE v.t = "string"  -> v.s # <<>>
      [] v.t = "number"  -> v.n # 0
      [] v.t = "boolean" -> v.b
      [] OTHER           -> FALSE

\* String(value)
String(v) ==
    CASE v.t = "string"    -> v.s
      [] v.t = "number"    -> <<ToString(v.n)>>
      [] v.t = "boolean"   -> IF v.b THEN <<"t", "r", "u", "e">>
                                     ELSE <<"f", "a", "l", "s", "e">>
      [] v.t = "null"      -> <<"n", "u", "l", "l">>
      [] v.t = "undefined" -> <<"u", "n", "d", "e", "f", "i", "n", "e", "d">>

RECURSIVE Join(_, _)
\* array.join(sep) of an array of strings
Join(parts, sep) ==
    IF parts = <<>> THEN <<>>
    ELSE IF Len(parts) = 1 THEN Head(parts)
    ELSE Head(parts) \o sep \o Join(Tail(parts), sep)

----------------------------------------------------------------------------
(* Property extractor.  A property is [type, sub, runs, n, b]: sub tells   *)
(* whether the sub-field named by type holds a value, null, or is missing; *)
(* runs are its strings (the plain_text of the runs, the option names, the *)
(* start date, the url), n its number, b its checkbox.                     *)

Prop(type, sub, runs, n, b) == [type |-> type, sub |-> sub, runs |-> runs, n |-> n, b |-> b]

KnownKinds == {"rich_text", "number", "select", "multi_select", "date",
               "checkbox", "url", "email", "phone_number"}

\* property.<sub-field> where the sub-field holds no value
AbsentValue(property) == IF property.sub = "null" THEN Null ELSE Undefined

\* x || ''
OrEmpty(v) == IF Truthy(v) THEN v ELSE Str(<<>>)

\* the default branch reads the runs of the sub-field named by the type
DefaultValueReadsRuns(property) ==
    IF property.sub # "value" THEN Thrown ELSE Str(Join(property.runs, <<>>))

\* default: return '';
DefaultValue(property) == Str(<<>>)

extractPropertyValue(property) ==
    CASE property.type = "rich_text" ->
           OrEmpty(IF property.sub # "value" THEN Undefined
                   ELSE Str(Join(property.runs, <<>>)))
      [] property.type = "number" ->
           IF property.sub # "value" THEN AbsentValue(property) ELSE Num(property.n)
      [] property.type = "select" ->
           OrEmpty(IF property.sub # "value" THEN Undefined ELSE Str(property.runs[1]))
      [] property.type = "multi_select" ->
           OrEmpty(IF property.sub # "value" THEN Undefined
                   ELSE Str(Join(property.runs, <<",", " ">>)))
      [] property.type = "date" ->
           OrEmpty(IF property.sub # "value" THEN Undefined ELSE Str(property.runs[1]))
      [] property.type = "checkbox" ->
           IF property.sub # "value" THEN AbsentValue(property) ELSE Bool(property.b)
      [] property.type \in {"url", "email", "phone_number"} ->
           OrEmpty(IF property.sub # "value" THEN AbsentValue(property)
                   ELSE Str(property.runs[1]))
      [] OTHER -> DefaultValue(property)

----------------------------------------------------------------------------
(* Block renderer.  A block is [type, present, runs, language]: present     *)
(* tells whether block[block.type].rich_text exists, runs are the           *)
(* plain_text of its runs, language the code language ('' when none).       *)

\* the backquote character, which a string of this module cannot hold
Backquote == "BACKQUOTE"

\* the three backquotes that open and close a code block
Fence == <<Backquote, Backquote, Backquote>>

Block(type, present, runs, language) ==
    [type |-> type, present |-> present, runs |-> runs, language |-> language]

\* block[type]?.rich_text?.map(text => text.plain_text).join('') || ''
RunText(block) == IF block.present THEN Join(block.runs, <<>>) ELSE <<>>

\* a numbered item that counts: its numeral grows with the text before it
AppendBlockCounting(markdown, block) ==
    markdown \o
    (IF block.type = "numbered_list_item"
     THEN <<IF markdown = <<>> THEN "1" ELSE "2", ".", " ">> \o RunText(block) \o <<"\n">>
     ELSE RunText(block) \o <<"\n", "\n">>)

\* one turn of the loop: markdown += the text of the block
AppendBlock(markdown, block) ==
    markdown \o
    (CASE block.type = "paragraph" -> RunText(block) \o <<"\n", "\n">>
       [] block.type = "heading_1" -> <<"#", " ">> \o RunText(block) \o <<"\n", "\n">>
       [] block.type = "heading_2" ->
            <<"#", "#", " ">> \o RunText(block) \o <<"\n", "\n">>
       [] block.type = "heading_3" ->
            <<"#", "#", "#", " ">> \o RunText(block) \o <<"\n", "\n">>
       [] block.type = "bulleted_list_item" -> <<"-", " ">> \o RunText(block) \o <<"\n">>
       [] block.type = "numbered_list_item" ->
            <<"1", ".", " ">> \o RunText(block) \o <<"\n">>
       [] block.type = "code" ->
            Fence \o block.language \o <<"\n">> \o RunText(block)
            \o <<"\n">> \o Fence \o <<"\n", "\n">>
       [] block.type = "quote" -> <<">", " ">> \o RunText(block) \o <<"\n", "\n">>
       [] OTHER ->
            IF block.present /\ RunText(block) # <<>>
            THEN RunText(block) \o <<"\n", "\n">>
            ELSE <<>>)

RECURSIVE RenderFrom(_, _)
\* the loop of convertBlocksToMarkdown from the text accumulated so far
RenderFrom(markdown, blocks) ==
    IF blocks = <<>> THEN markdown
    ELSE RenderFrom(AppendBlock(markdown, Head(blocks)), Tail(blocks))

convertBlocksToMarkdown(blocks) == RenderFrom(<<>>, blocks)

----------------------------------------------------------------------------
(* Record renderer: the header section of a record document *)

\* cleanValue.length > 100
HeaderQuoteLimit == 100

\* .replace(/\n/g, ' ')
ReplaceNewlines(s) == [i \in 1..Len(s) |-> IF s[i] = "\n" THEN " " ELSE s[i]]

RECURSIVE EscapeQuotes(_)
\* .replace(/"/g, '\\"')
EscapeQuotes(s) ==
    IF s = <<>> THEN <<>>
    ELSE (IF Head(s) = "\"" THEN <<"\\", "\"">> ELSE <<Head(s)>>)
         \o EscapeQuotes(Tail(s))

\* s.includes(c)
Includes(s, c) == \E i \in 1..Len(s) : s[i] = c

\* the body of the loop over Object.entries(page.properties): the text one
\* property adds to the header
HeaderLine(key, property) ==
    IF property.type = "title" THEN <<>>
    ELSE LET value == extractPropertyValue(property) IN
         IF ~Truthy(value) THEN <<>>
         ELSE LET cleanValue == EscapeQuotes(ReplaceNewlines(String(value))) IN
              IF \/ Includes(cleanValue, ":")
                 \/ Includes(cleanValue, "\n")
                 \/ Len(cleanValue) > HeaderQuoteLimit
              THEN key \o <<":", " ", "\"">> \o cleanValue \o <<"\"", "\n">>
              ELSE key \o <<":", " ">> \o cleanValue \o <<"\n">>

RECURSIVE HeaderLines(_)
\* for (const [key, property] of Object.entries(page.properties))
HeaderLines(properties) ==
    IF properties = <<>> THEN <<>>
    ELSE HeaderLine(Head(properties).key, Head(properties).property)
         \o HeaderLines(Tail(properties))

\* page.created_time, page.last_edited_time
CreatedTime(id) == <<"2023-01-01", "T", ToString(id)>>
LastEditedTime(id) == <<"2024-01-01", "T", ToString(id)>>

\* page.properties of the page [id, others, blocks]: the title property of
\* the record, then its other properties in the order of the map
Properties(page) ==
    <<[key |-> <<"N", "a", "m", "e">>,
       property |-> Prop("title", "value", TitleRuns(page.id), 0, FALSE)]>>
    \o page.others

\* the text convertPageToMarkdown hands to fs.writeFile
Document(page) ==
    <<"---", "\n">>
    \o <<"notion_id", ":", " ", ToString(page.id), "\n">>
    \o <<"created", ":", " ">> \o CreatedTime(page.id) \o <<"\n">>
    \o <<"updated", ":", " ">> \o LastEditedTime(page.id) \o <<"\n">>
    \o HeaderLines(Properties(page))
    \o <<"---", "\n", "\n">>
    \o <<"#", " ">> \o PageTitle(page.id) \o <<"\n", "\n">>
    \o convertBlocksToMarkdown(page.blocks)

\* the file convertPageToMarkdown writes for the page
convertPageToMarkdown(page) ==
    [fileName |-> PageFileName(page.id), markdown |-> Document(page)]

----------------------------------------------------------------------------
(* Single aggregate table: the rows of convertToMarkdownTable.  The schema *)
(* is the sequence of the declared non-title property names.               *)

\* .slice(0, 100)
TableCellLimit == 100

\* .replace(/\|/g, '\\|')
RECURSIVE EscapePipes(_)
EscapePipes(s) ==
    IF s = <<>> THEN <<>>
    ELSE IF Len(s) = 1 THEN (IF s[1] = "|" THEN <<"\\", "|">> ELSE s)
    ELSE EscapePipes(SubSeq(s, 1, Len(s) \div 2))
         \o EscapePipes(SubSeq(s, Len(s) \div 2 + 1, Len(s)))

\* s.slice(0, n)
Slice(s, n) == SubSeq(s, 1, IF Len(s) < n THEN Len(s) ELSE n)

\* s.split('T')[0]
RECURSIVE BeforeT(_)
BeforeT(s) ==
    IF s = <<>> \/ Head(s) = "T" THEN <<>> ELSE <<Head(s)>> \o BeforeT(Tail(s))

\* page.properties[propName]: the entry of the map, or undefined
HasProperty(page, propName) ==
    \E k \in 1..Len(page.others) : page.others[k].key = propName

PropertyOf(page, propName) ==
    page.others[CHOOSE k \in 1..Len(page.others) : page.others[k].key = propName].property

\* titleProp?.title?.[0]?.plain_text || `Page ${page.id.slice(-8)}`
\* (the ids of the model are shorter than eight characters)
RowTitle(page) ==
    IF TitleRuns(page.id) # <<>> /\ TitleRuns(page.id)[1] # <<>>
    THEN TitleRuns(page.id)[1]
    ELSE <<"P", "a", "g", "e", " ", ToString(page.id)>>

\* the cell of one declared property
TableCell(page, propName) ==
    LET value == IF HasProperty(page, propName)
                 THEN extractPropertyValue(PropertyOf(page, propName))
                 ELSE Str(<<>>)
        cleanValue == Slice(ReplaceNewlines(EscapePipes(String(value))), TableCellLimit)
    IN IF cleanValue = <<>> THEN <<"-">> ELSE cleanValue

\* a row without the dates
TableRowNoDates(schema, page) ==
    <<RowTitle(page)>> \o [k \in 1..Len(schema) |-> TableCell(page, schema[k])]

\* row: the cells pushed for one page
TableRow(schema, page) ==
    <<RowTitle(page)>>
    \o [k \in 1..Len(schema) |-> TableCell(page, schema[k])]
    \o <<BeforeT(CreatedTime(page.id)), BeforeT(LastEditedTime(page.id))>>

\* `| ${row.join(' | ')} |\n`
RowText(row) == <<"|", " ">> \o Join(row, <<" ", "|", " ">>) \o <<" ", "|", "\n">>

\* the loop over pages: the row of every page and the line it adds to
\* tableContent
convertToMarkdownTable(schema, pages) ==
    [rows  |-> [k \in 1..Len(pages) |-> TableRow(schema, pages[k])],
     lines |-> [k \in 1..Len(pages) |-> RowText(TableRow(schema, pages[k]))]]

----------------------------------------------------------------------------
(* View definition: convertToObsidianBase as a function of the batch.  The *)
(* per-record loop writes the document of every record that converts; the  *)
(* second pass collects the used properties from all pages.                *)

\* otherProperties.slice(0, 8)
OrderLimit == 8

\* value && value.toString().trim()
HasActualValue(value) ==
    /\ Truthy(value)
    /\ \E i \in 1..Len(String(value)) : String(value)[i] \notin Whitespace

\* actualProperties.add(key): a Set keeps the order of first insertion
SetAdd(set, key) ==
    IF \E i \in 1..Len(set) : set[i] = key THEN set ELSE Append(set, key)

RECURSIVE ScanEntries(_, _)
\* for (const [key, property] of Object.entries(page.properties))
ScanEntries(set, entries) ==
    IF entries = <<>> THEN set
    ELSE ScanEntries(
            IF /\ Head(entries).property.type # "title"
               /\ HasActualValue(extractPropertyValue(Head(entries).property))
            THEN SetAdd(set, Head(entries).key)
            ELSE set,
            Tail(entries))

RECURSIVE ScanPages(_, _)
\* for (const page of pages): every page of the batch, converted or not
ScanPages(set, pages) ==
    IF pages = <<>> THEN set
    ELSE ScanPages(ScanEntries(set, Properties(Head(pages))), Tail(pages))

\* the record documents in the output directory after the first loop: a
\* record that does not convert writes nothing, a later record with the
\* same file name overwrites an earlier one
NotesOnDisk(pages) ==
    { [fileName |-> PageFileName(pages[k].id), page |-> pages[k]] :
        k \in { k \in 1..Len(pages) :
                  /\ ~Malformed(pages[k].id)
                  /\ ~BlocksUnreachable(pages[k].id)
                  /\ PageFileName(pages[k].id) \notin Unwritable
                  /\ \A l \in k + 1..Len(pages) :
                        \/ PageFileName(pages[l].id) # PageFileName(pages[k].id)
                        \/ BlocksUnreachable(pages[l].id)
                        \/ Malformed(pages[l].id) } }

\* a column order without the limit
OrderColumnsAll(otherProperties) ==
    << <<"file.name">> >> \o otherProperties \o << <<"file.ctime">>, <<"file.mtime">> >>

\* the entries of the order: section of the table view
OrderColumns(otherProperties) ==
    << <<"file.name">> >>
    \o SubSeq(otherProperties, 1,
              IF Len(otherProperties) < OrderLimit THEN Len(otherProperties) ELSE OrderLimit)
    \o << <<"file.ctime">>, <<"file.mtime">> >>

\* the files of the output directory and the two lists of the .base document
convertToObsidianBase(pages) ==
    LET otherProperties == ScanPages(<<>>, pages) IN
    [notes      |-> NotesOnDisk(pages),
     properties |-> otherProperties \o << <<"file.ctime">>, <<"file.mtime">> >>,
     order      |-> OrderColumns(otherProperties)]

----------------------------------------------------------------------------
(* The progress sink.  The operators below take and return a "world": the  *)
(* record [jobs, progressStreams, consumers, disk] of the mutable state a   *)
(* handler touches, so that one atomic step can be composed of calls.      *)

Update(stage, progress) == [stage |-> stage, progress |-> progress]

\* global.progressStreams.has(conversionId)
HasStream(W, conversionId) == W.progressStreams[conversionId] # NoConsumer

\* global.progressStreams.delete(conversionId)
\* a clean-up that empties the whole registry
DeleteEveryStream(W, conversionId) ==
    [W EXCEPT !.progressStreams = [id \in DOMAIN @ |-> NoConsumer]]

DeleteStream(W, conversionId) ==
    [W EXCEPT !.progressStreams[conversionId] = NoConsumer]

\* a sink that keeps the entry of a channel whose write raised
sendProgressKeepsEntry(W, conversionId, data) ==
    IF HasStream(W, conversionId) /\ ~W.consumers[W.progressStreams[conversionId]].broken
    THEN [W EXCEPT !.consumers[W.progressStreams[conversionId]].received =
                       Append(@, data)]
    ELSE W

\* function sendProgress(conversionId, data): res.write raises on a broken
\* channel, the error is caught and the entry deleted
sendProgress(W, conversionId, data) ==
    IF HasStream(W, conversionId)
    THEN LET res == W.progressStreams[conversionId] IN
         IF W.consumers[res].broken
         THEN DeleteStream(W, conversionId)
         ELSE [W EXCEPT !.consumers[res].received = Append(@, data)]
    ELSE W

\* a handler that gives up when nobody listens to its updates
EmitNeedsConsumer(W, j, stage, progress) ==
    IF W.jobs[j].conversionId = NoId THEN W
    ELSE IF ~HasStream(W, W.jobs[j].conversionId)
    THEN [W EXCEPT !.jobs[j].pc = "done",
                   !.jobs[j].response = "failure",
                   !.jobs[j].failedBy = "progress"]
    ELSE sendProgress([W EXCEPT !.jobs[j].emitted = Append(@, Update(stage, progress))],
                      W.jobs[j].conversionId, Update(stage, progress))

\* if (conversionId) { sendProgress(conversionId, {...}) }
\* jobs[j].emitted records every update the job passes to sendProgress
Emit(W, j, stage, progress) ==
    IF W.jobs[j].conversionId = NoId THEN W
    ELSE sendProgress([W EXCEPT !.jobs[j].emitted = Append(@, Update(stage, progress))],
                      W.jobs[j].conversionId, Update(stage, progress))

\* Math.round(x) for x = num / den >= 0, den > 0: floor(x + 1/2), computed
\* on the exact quotient (the code rounds the nearest double)
MathRound(num, den) == (2 * num + den) \div (2 * den)

\* FetchProgress with the two branches exchanged
FetchProgressSwapped(cursor) == 30 + (IF cursor # NoCursor THEN 20 ELSE 10)

\* progress: 30 + (cursor ? 10 : 20)
FetchProgress(cursor) == 30 + (IF cursor # NoCursor THEN 10 ELSE 20)

\* Math.round(lo + ((i + 1) / pages.length) * span), i the 0-based index
LoopProgress(lo, span, i, n) == MathRound(lo * n + (i + 1) * span, n)

\* a loop that reports every tenth record only
ReportsEveryTenth(i, n) == i % 10 = 0

\* i % 10 === 0 || i === pages.length - 1
ReportsRecord(i, n) == i % 10 = 0 \/ i = n - 1

\* i % 50 === 0 || i === pages.length - 1
ReportsRow(i, n) == i % 50 = 0 \/ i = n - 1

\* MorePages leaving the loop after the first response
MorePagesNever(cursor) == FALSE

\* } while (cursor);
MorePages(cursor) == cursor # NoCursor

----------------------------------------------------------------------------
(* The conversion job: synchronous segments of the handler *)

InitJob(format, conversionId) ==
    [ pc             |-> "idle",       \* the awaited operation, or idle / done
      format         |-> format,       \* req.body.conversionFormat
      conversionId   |-> conversionId, \* req.body.conversionId
      pages          |-> <<>>,
      cursor         |-> NoCursor,
      i              |-> 0,            \* index of the record being converted
      convertedFiles |-> <<>>,
      response       |-> "none",       \* none, config_error, success, failure
      filesCreated   |-> 0,            \* filesCreated of the success payload
      \* history of the job's effects
      emitted        |-> <<>>,         \* updates passed to sendProgress
      requests       |-> <<>>,         \* start_cursor of every page request
      fetched        |-> <<>>,         \* every page response
      lastPage       |-> FALSE,        \* the last response had no next_cursor
      blockFetches   |-> <<>>,         \* records whose blocks were requested
      mkdirs         |-> 0,            \* fs.mkdir calls that succeeded
      writes         |-> <<>>,         \* names of the files written
      raised         |-> 0,            \* records whose conversion raised
      ioErrors       |-> 0,            \* fs.mkdir / fs.writeFile rejections
      contacted      |-> FALSE,        \* a record-source request was made
      failedBy       |-> "none" ]      \* what raised into the outer catch

\* } catch (error) { res.status(500).json({ error: 'Failed to convert database' }) }
\* cause: request, query, mkdir, write or record
Fail(W, j, cause) ==
    [W EXCEPT !.jobs[j].pc = "done", !.jobs[j].response = "failure",
              !.jobs[j].failedBy = cause]

\* fs.mkdir or fs.writeFile rejected
IoError(W, j) == [W EXCEPT !.jobs[j].ioErrors = @ + 1]

\* ConfigError reached only after the initial update was sent
ConfigErrorAfterStart(W, j) ==
    [Emit(W, j, "starting", 0) EXCEPT !.jobs[j].pc = "done",
                                      !.jobs[j].response = "config_error"]

\* if (!notion) return res.status(400).json({ error: 'Notion token not configured' })
ConfigError(W, j) ==
    [W EXCEPT !.jobs[j].pc = "done", !.jobs[j].response = "config_error"]

\* Finish without the final update
FinishWithoutUpdate(W, j) ==
    LET id == W.jobs[j].conversionId
        W2 == IF id # NoId THEN DeleteStream(W, id) ELSE W
    IN  [W2 EXCEPT !.jobs[j].pc = "done",
                   !.jobs[j].response = "success",
                   !.jobs[j].filesCreated = Len(W2.jobs[j].convertedFiles)]

\* the final update, the registry clean-up and res.json({ success: true, ... })
Finish(W, j) ==
    LET id == W.jobs[j].conversionId
        W1 == Emit(W, j, "complete", 100)
        W2 == IF id # NoId THEN DeleteStream(W1, id) ELSE W1
    IN  [W2 EXCEPT !.jobs[j].pc = "done",
                   !.jobs[j].response = "success",
                   !.jobs[j].filesCreated = Len(W2.jobs[j].convertedFiles)]

\* } catch (error) { console.error(`Error converting page ${page.id}:`, error) }
SkipRecord(W, j) == [W EXCEPT !.jobs[j].raised = @ + 1]

\* the second pass of convertToObsidianBase reads Object.entries(page.properties)
\* of every page of the batch, outside any try block
SecondPassRaises(pages) == \E k \in 1..Len(pages) : Malformed(pages[k])

\* what follows the per-record loop in each strategy
AfterNotes(W, j) ==
    LET f == W.jobs[j].format IN
    IF f = "dataview-table"
    THEN [Emit(W, j, "converting", 85) EXCEPT !.jobs[j].pc = "tablewrite"]
    ELSE IF f = "obsidian-base"
    THEN LET W1 == Emit(W, j, "converting", 85) IN
         IF SecondPassRaises(W1.jobs[j].pages)
         THEN Fail(W1, j, "record")
         ELSE [W1 EXCEPT !.jobs[j].pc = "basewrite"]
    ELSE Finish(W, j)

\* Promise.all over the records: every remaining block listing is requested
\* at once
RecordLoopFanOut(W, j, i) ==
    LET pages == W.jobs[j].pages IN
    IF i >= Len(pages) THEN AfterNotes(W, j)
    ELSE [W EXCEPT !.jobs[j].i = i,
                   !.jobs[j].pc = "blocks",
                   !.jobs[j].blockFetches =
                       @ \o SubSeq(pages, i + 1, Len(pages))]

RECURSIVE RecordLoop(_, _, _)
\* for (let i = 0; i < pages.length; i++) { try { await convertPageToMarkdown(...) ...
\* from index i up to the next await: a record without properties raises
\* before convertPageToMarkdown awaits anything
RecordLoop(W, j, i) ==
    LET pages == W.jobs[j].pages IN
    IF i >= Len(pages) THEN AfterNotes(W, j)
    ELSE IF Malformed(pages[i + 1]) THEN RecordLoop(SkipRecord(W, j), j, i + 1)
    ELSE [W EXCEPT !.jobs[j].i = i,
                   !.jobs[j].pc = "blocks",
                   !.jobs[j].blockFetches = Append(@, pages[i + 1])]

RECURSIVE TableRows(_, _, _)
\* the row loop of convertToMarkdownTable: no await and no try block
TableRows(W, j, i) ==
    LET pages == W.jobs[j].pages
        n == Len(pages) IN
    IF i >= n THEN [W EXCEPT !.jobs[j].pc = "tablewrite"]
    ELSE IF Malformed(pages[i + 1]) THEN Fail(W, j, "record")
    ELSE TableRows(IF ReportsRow(i, n)
                   THEN Emit(W, j, "converting", LoopProgress(60, 30, i, n))
                   ELSE W, j, i + 1)

\* 50-90% for conversion, 50-80% for individual notes
NoteSpan(format) == IF format = "separate-pages" THEN 40 ELSE 30

\* switch (conversionFormat)
RunStrategy(W, j) ==
    IF W.jobs[j].format = "markdown-table"
    THEN TableRows(Emit(W, j, "converting", 60), j, 0)
    ELSE RecordLoop(W, j, 0)

----------------------------------------------------------------------------
(* Actions *)

World ==
    [jobs |-> jobs, progressStreams |-> progressStreams,
     consumers |-> consumers, disk |-> disk]

Apply(W) ==
    /\ jobs' = W.jobs
    /\ progressStreams' = W.progressStreams
    /\ consumers' = W.consumers
    /\ disk' = W.disk
    /\ UNCHANGED <<notion, probe>>

\* the handler from its entry to await notion.search(...)
RequestStep(W, j) ==
    IF ~notion
    THEN ConfigError(W, j)
    ELSE [Emit(Emit(W, j, "starting", 0), j, "searching", 10)
             EXCEPT !.jobs[j].pc = "search",
                    !.jobs[j].contacted = TRUE]

\* app.post('/api/convert/:databaseId'): up to await notion.search(...)
ConvertRequest(j) ==
    /\ jobs[j].pc = "idle"
    /\ Apply(RequestStep(World, j))

SearchOutcomes == {"data_source", "database", "rejected"}

\* from the result of notion.search to the retrieval request
SearchStep(W, j, outcome) ==
    IF outcome = "rejected"
    THEN Fail(W, j, "request")
    ELSE [Emit(W, j, "retrieving", 20)
             EXCEPT !.jobs[j].pc = IF outcome = "data_source"
                                   THEN "retrieveDataSource"
                                   ELSE "retrieve"]

\* notion.search settles: targetDb is a data_source or not
SearchDone(j) ==
    /\ jobs[j].pc = "search"
    /\ \E outcome \in SearchOutcomes : Apply(SearchStep(World, j, outcome))

\* stage 'querying', progress 30, and the first page request (cursor undefined)
BeginQuery(W, j) ==
    [Emit(W, j, "querying", 30) EXCEPT !.jobs[j].pc = "query",
                                       !.jobs[j].requests = <<NoCursor>>]

\* try { database = await notion.request(...) } catch { ...databases.retrieve }
RetrieveDataSourceStep(W, j, ok) ==
    IF ok THEN BeginQuery(W, j) ELSE [W EXCEPT !.jobs[j].pc = "retrieve"]

\* notion.request({ path: `data_sources/${databaseId}` }) settles; on a
\* rejection the inner catch falls back to notion.databases.retrieve
RetrieveDataSourceDone(j) ==
    /\ jobs[j].pc = "retrieveDataSource"
    /\ \E ok \in BOOLEAN : Apply(RetrieveDataSourceStep(World, j, ok))

\* database = await notion.databases.retrieve({ database_id: databaseId })
RetrieveStep(W, j, ok) ==
    IF ok THEN BeginQuery(W, j) ELSE Fail(W, j, "request")

\* notion.databases.retrieve settles
RetrieveDone(j) ==
    /\ jobs[j].pc = "retrieve"
    /\ \E ok \in BOOLEAN : Apply(RetrieveStep(World, j, ok))

\* QueryResponse reporting the fetch under the stage of the previous step
QueryResponseWrongStage(W, j, results, next) ==
    LET W1 == [W EXCEPT !.jobs[j].pages = @ \o results,
                        !.jobs[j].cursor = next,
                        !.jobs[j].fetched =
                            Append(@, [results |-> results, next_cursor |-> next]),
                        !.jobs[j].lastPage = (next = NoCursor)]
        W2 == Emit(W1, j, "retrieving", FetchProgress(next))
    IN  IF MorePages(next)
        THEN [W2 EXCEPT !.jobs[j].requests = Append(@, next)]
        ELSE [W2 EXCEPT !.jobs[j].pc = "mkdir"]

\* QueryResponse assigning the results instead of appending them
QueryResponseOverwrites(W, j, results, next) ==
    LET W1 == [W EXCEPT !.jobs[j].pages = results,
                        !.jobs[j].cursor = next,
                        !.jobs[j].fetched =
                            Append(@, [results |-> results, next_cursor |-> next]),
                        !.jobs[j].lastPage = (next = NoCursor)]
        W2 == Emit(W1, j, "querying", FetchProgress(next))
    IN  IF MorePages(next)
        THEN [W2 EXCEPT !.jobs[j].requests = Append(@, next)]
        ELSE [W2 EXCEPT !.jobs[j].pc = "mkdir"]

\* the body of the do-while loop after the page response arrived
QueryResponse(W, j, results, next) ==
    LET W1 == [W EXCEPT !.jobs[j].pages = @ \o results,
                        !.jobs[j].cursor = next,
                        !.jobs[j].fetched =
                            Append(@, [results |-> results, next_cursor |-> next]),
                        !.jobs[j].lastPage = (next = NoCursor)]
        W2 == Emit(W1, j, "querying", FetchProgress(next))
    IN  IF MorePages(next)
        THEN [W2 EXCEPT !.jobs[j].requests = Append(@, next)]
        ELSE [W2 EXCEPT !.jobs[j].pc = "mkdir"]

\* the responses the record source may give to the page request of job j:
\* at cursor c it answers with a cursor further on, or with none
PageResponses(j) ==
    { r \in [results : SampleResults, next_cursor : Cursors \cup {NoCursor}] :
        /\ r.next_cursor # jobs[j].cursor \/ r.next_cursor = NoCursor
        /\ Len(jobs[j].requests) < MaxFetch \/ r.next_cursor = NoCursor
        /\ Len(jobs[j].pages) + Len(r.results) <= MaxRecords }

\* a page request of the pagination loop settles
QueryDone(j) ==
    /\ jobs[j].pc = "query"
    /\ \/ Apply(Fail(World, j, "query"))
       \/ \E r \in PageResponses(j) :
             Apply(QueryResponse(World, j, r.results, r.next_cursor))

\* from the result of fs.mkdir into the selected strategy
MkdirStep(W, j, ok) ==
    IF ok
    THEN RunStrategy(Emit([W EXCEPT !.jobs[j].mkdirs = @ + 1],
                          j, "converting", 50), j)
    ELSE Fail(IoError(W, j), j, "mkdir")

\* await fs.mkdir(finalOutputPath, { recursive: true }) settles
MkdirDone(j) ==
    /\ jobs[j].pc = "mkdir"
    /\ \E ok \in BOOLEAN : Apply(MkdirStep(World, j, ok))

\* convertPageToMarkdown from the result of getPageBlocks to fs.writeFile
BlocksStep(W, j) ==
    IF BlocksUnreachable(W.jobs[j].pages[W.jobs[j].i + 1])
    THEN RecordLoop(SkipRecord(W, j), j, W.jobs[j].i + 1)
    ELSE [W EXCEPT !.jobs[j].pc = "write"]

\* getPageBlocks settles inside convertPageToMarkdown; the document is
\* rendered and fs.writeFile is called
BlocksDone(j) ==
    /\ jobs[j].pc = "blocks"
    /\ Apply(BlocksStep(World, j))

\* convertedFiles.push(fileName) and the update every 10 pages or on the last
NoteWritten(W, j, fileName) ==
    LET i == W.jobs[j].i
        n == Len(W.jobs[j].pages)
        W1 == [W EXCEPT !.disk = @ \cup {fileName},
                        !.jobs[j].writes = Append(@, fileName),
                        !.jobs[j].convertedFiles = Append(@, fileName)]
    IN  IF ReportsRecord(i, n)
        THEN Emit(W1, j, "converting",
                  LoopProgress(50, NoteSpan(W.jobs[j].format), i, n))
        ELSE W1

\* from the result of fs.writeFile of convertPageToMarkdown to the next await
WriteStep(W, j) ==
    LET fileName == PageFileName(W.jobs[j].pages[W.jobs[j].i + 1]) IN
    IF fileName \in Unwritable
    THEN RecordLoop(SkipRecord(IoError(W, j), j), j, W.jobs[j].i + 1)
    ELSE RecordLoop(NoteWritten(W, j, fileName), j, W.jobs[j].i + 1)

\* await fs.writeFile(filePath, markdown, 'utf8') of convertPageToMarkdown
\* settles; a rejection is rethrown and caught by the loop of the strategy
WriteDone(j) ==
    /\ jobs[j].pc = "write"
    /\ Apply(WriteStep(World, j))

\* the aggregate file was written: convertedFiles.push(name), or return [name]
AggregateWritten(W, j, fileName) ==
    [W EXCEPT !.disk = @ \cup {fileName},
              !.jobs[j].writes = Append(@, fileName),
              !.jobs[j].convertedFiles =
                  IF W.jobs[j].format = "markdown-table"
                  THEN <<fileName>> ELSE Append(@, fileName)]

\* from the result of writing the aggregate file to the response
AggregateStep(W, j, fileName, ok) ==
    IF ok THEN Finish(AggregateWritten(W, j, fileName), j)
    ELSE Fail(IoError(W, j), j, "write")

\* await fs.writeFile(tableFilePath, ...) of convertToDataviewFormat or
\* convertToMarkdownTable settles
TableWriteDone(j) ==
    /\ jobs[j].pc = "tablewrite"
    /\ \E ok \in BOOLEAN : Apply(AggregateStep(World, j, TableFileName, ok))

\* await fs.writeFile(baseFilePath, ...) of convertToObsidianBase settles
BaseWriteDone(j) ==
    /\ jobs[j].pc = "basewrite"
    /\ \E ok \in BOOLEAN : Apply(AggregateStep(World, j, BaseFileName, ok))

----------------------------------------------------------------------------
(* Progress consumers *)

InitConsumer ==
    [ state    |-> "idle",   \* idle, open, closed
      id       |-> NoId,     \* req.params.conversionId
      received |-> <<>>,     \* updates written to the channel
      broken   |-> FALSE,    \* res.write raises
      late     |-> FALSE ]   \* registered after the job of its id returned

\* app.get('/api/progress/:conversionId'): global.progressStreams.set(id, res)
Register(k, id) ==
    /\ consumers[k].state = "idle"
    /\ consumers' = [consumers EXCEPT ![k].state = "open", ![k].id = id,
                        ![k].late = \A j \in DOMAIN jobs :
                            jobs[j].conversionId = id => jobs[j].pc = "done"]
    /\ progressStreams' = [progressStreams EXCEPT ![id] = k]
    /\ UNCHANGED <<notion, jobs, disk, probe>>

\* req.on('close', () => { global.progressStreams.delete(conversionId) })
Disconnect(k) ==
    /\ consumers[k].state = "open"
    /\ consumers' = [consumers EXCEPT ![k].state = "closed"]
    /\ progressStreams' = [progressStreams EXCEPT ![consumers[k].id] = NoConsumer]
    /\ UNCHANGED <<notion, jobs, disk, probe>>

\* the channel of an open consumer starts to raise on write
ChannelBreaks(k) ==
    /\ consumers[k].state = "open"
    /\ ~consumers[k].broken
    /\ consumers' = [consumers EXCEPT ![k].broken = TRUE]
    /\ UNCHANGED <<notion, jobs, progressStreams, disk, probe>>

----------------------------------------------------------------------------
(* Specification *)

\* no helper call is under observation
NoProbe == [fn |-> "none", called |-> FALSE]

Init ==
    /\ notion \in BOOLEAN
    /\ \E format \in Formats, id \in Ids \cup {NoId} :
          jobs = [j \in Jobs |-> InitJob(format, id)]
    /\ progressStreams = [id \in Ids |-> NoConsumer]
    /\ consumers = [k \in Consumers |-> InitConsumer]
    /\ disk = {}
    /\ probe = NoProbe

Next ==
    \/ \E j \in Jobs : ConvertRequest(j)
    \/ \E j \in Jobs : SearchDone(j)
    \/ \E j \in Jobs : RetrieveDataSourceDone(j)
    \/ \E j \in Jobs : RetrieveDone(j)
    \/ \E j \in Jobs : QueryDone(j)
    \/ \E j \in Jobs : MkdirDone(j)
    \/ \E j \in Jobs : BlocksDone(j)
    \/ \E j \in Jobs : WriteDone(j)
    \/ \E j \in Jobs : TableWriteDone(j)
    \/ \E j \in Jobs : BaseWriteDone(j)
    \/ \E k \in Consumers, id \in Ids : Register(k, id)
    \/ \E k \in Consumers : Disconnect(k)
    \/ \E k \in Consumers : ChannelBreaks(k)

Spec == Init /\ [][Next]_vars

----------------------------------------------------------------------------
(* Two runs of the handler side by side.  Request 1 carries conversionId 1, *)
(* for which a consumer may register, disconnect or break at any moment;    *)
(* request 2 carries conversionId 2, for which nobody ever registers.  Both *)
(* name the same database and format, and every operation they await        *)
(* settles the same way for both, so any difference between the two jobs    *)
(* comes from progress delivery.                                            *)

TwinJobs == {1, 2}

\* both handlers await the same operation
TwinAt(pc) == \A j \in TwinJobs : jobs[j].pc = pc

TwinConvertRequest ==
    /\ TwinAt("idle")
    /\ Apply(RequestStep(RequestStep(World, 1), 2))

TwinSearchDone ==
    /\ TwinAt("search")
    /\ \E outcome \in SearchOutcomes :
          Apply(SearchStep(SearchStep(World, 1, outcome), 2, outcome))

TwinRetrieveDataSourceDone ==
    /\ TwinAt("retrieveDataSource")
    /\ \E ok \in BOOLEAN :
          Apply(RetrieveDataSourceStep(RetrieveDataSourceStep(World, 1, ok), 2, ok))

TwinRetrieveDone ==
    /\ TwinAt("retrieve")
    /\ \E ok \in BOOLEAN : Apply(RetrieveStep(RetrieveStep(World, 1, ok), 2, ok))

TwinQueryDone ==
    /\ TwinAt("query")
    /\ \/ Apply(Fail(Fail(World, 1, "query"), 2, "query"))
       \/ \E r \in PageResponses(1) :
             Apply(QueryResponse(QueryResponse(World, 1, r.results, r.next_cursor),
                                 2, r.results, r.next_cursor))

TwinMkdirDone ==
    /\ TwinAt("mkdir")
    /\ \E ok \in BOOLEAN : Apply(MkdirStep(MkdirStep(World, 1, ok), 2, ok))

TwinBlocksDone ==
    /\ TwinAt("blocks")
    /\ Apply(BlocksStep(BlocksStep(World, 1), 2))

TwinWriteDone ==
    /\ TwinAt("write")
    /\ Apply(WriteStep(WriteStep(World, 1), 2))

TwinTableWriteDone ==
    /\ TwinAt("tablewrite")
    /\ \E ok \in BOOLEAN :
          Apply(AggregateStep(AggregateStep(World, 1, TableFileName, ok),
                              2, TableFileName, ok))

TwinBaseWriteDone ==
    /\ TwinAt("basewrite")
    /\ \E ok \in BOOLEAN :
          Apply(AggregateStep(AggregateStep(World, 1, BaseFileName, ok),
                              2, BaseFileName, ok))

InitTwin ==
    /\ notion \in BOOLEAN
    /\ \E format \in Formats : jobs = [j \in TwinJobs |-> InitJob(format, j)]
    /\ progressStreams = [id \in TwinJobs |-> NoConsumer]
    /\ consumers = [k \in Consumers |-> InitConsumer]
    /\ disk = {}
    /\ probe = NoProbe

NextTwin ==
    \/ TwinConvertRequest
    \/ TwinSearchDone
    \/ TwinRetrieveDataSourceDone
    \/ TwinRetrieveDone
    \/ TwinQueryDone
    \/ TwinMkdirDone
    \/ TwinBlocksDone
    \/ TwinWriteDone
    \/ TwinTableWriteDone
    \/ TwinBaseWriteDone
    \/ \E k \in Consumers, id \in Ids : Register(k, id)
    \/ \E k \in Consumers : Disconnect(k)
    \/ \E k \in Consumers : ChannelBreaks(k)

SpecTwin == InitTwin /\ [][NextTwin]_vars

----------------------------------------------------------------------------
(* Several jobs and several consumers.  Two requests with the distinct      *)
(* conversionIds 1 and 2 run interleaved, and two consumers register under  *)
(* either id, also under the same one.  The record source answers every     *)
(* query with one short page, and channel writes succeed.                   *)

ManyJobs == {1, 2}
ManyConsumers == {1, 2}

\* the first request asks for one note per record and a table over them,
\* the second for one note per record and a view definition
ManyFormat(j) == IF j = 1 THEN "dataview-table" ELSE "obsidian-base"

\* the single pages of at most four records
ShortPages(j) ==
    { r \in PageResponses(j) : r.next_cursor = NoCursor /\ Len(r.results) <= 4 }

\* the page request settles with a short last page
ShortQueryDone(j) ==
    /\ jobs[j].pc = "query"
    /\ \/ Apply(Fail(World, j, "query"))
       \/ \E r \in ShortPages(j) :
             Apply(QueryResponse(World, j, r.results, r.next_cursor))

InitMany ==
    /\ notion = TRUE
    /\ jobs = [j \in ManyJobs |-> InitJob(ManyFormat(j), j)]
    /\ progressStreams = [id \in ManyJobs |-> NoConsumer]
    /\ consumers = [k \in ManyConsumers |-> InitConsumer]
    /\ disk = {}
    /\ probe = NoProbe

NextMany ==
    \/ \E j \in ManyJobs : ConvertRequest(j)
    \/ \E j \in ManyJobs : SearchDone(j)
    \/ \E j \in ManyJobs : RetrieveDataSourceDone(j)
    \/ \E j \in ManyJobs : RetrieveDone(j)
    \/ \E j \in ManyJobs : ShortQueryDone(j)
    \/ \E j \in ManyJobs : MkdirDone(j)
    \/ \E j \in ManyJobs : BlocksDone(j)
    \/ \E j \in ManyJobs : WriteDone(j)
    \/ \E j \in ManyJobs : TableWriteDone(j)
    \/ \E j \in ManyJobs : BaseWriteDone(j)
    \/ \E k \in ManyConsumers, id \in ManyJobs : Register(k, id)
    \/ \E k \in ManyConsumers : Disconnect(k)
    \/ \E k \in ManyConsumers : ChannelBreaks(k)

SpecMany == InitMany /\ [][NextMany]_vars

----------------------------------------------------------------------------
(* The pure helpers on their own: one call of one helper on an input drawn  *)
(* from a bounded set.  No job runs in this specification.                  *)

Alphabet == ReservedChars \cup Whitespace \cup {"a", "_"}

\* the strings of at most n characters
Texts(n) == UNION { [1..k -> Alphabet] : k \in 0..n }

\* the state around the observed call, which no helper touches
Quiescent ==
    /\ notion = TRUE
    /\ jobs = [j \in Jobs |-> InitJob("separate-pages", NoId)]
    /\ progressStreams = [id \in Ids |-> NoConsumer]
    /\ consumers = [k \in Consumers |-> InitConsumer]
    /\ disk = {}

Pending(fn, arg) == [fn |-> fn, called |-> FALSE, arg |-> arg]
Returned(fn, arg, out) == [fn |-> fn, called |-> TRUE, arg |-> arg, out |-> out]
Calling(fn) == probe.fn = fn /\ ~probe.called
Called(fn) == probe.fn = fn /\ probe.called

\* kinds the extractor has no case for
OtherKinds == {"title", "formula", "relation"}

\* the strings a property may carry
SampleTexts ==
    { <<"a">>, <<"a", ":", "b">>, <<"a", "\n", "b">>, <<"\"">>, <<"a", "|", "b">>, <<>> }

SampleProperties ==
    { Prop(type, sub, <<>>, 0, FALSE) :
        type \in KnownKinds \cup OtherKinds, sub \in {"null", "undefined"} }
    \cup { Prop(type, "value", <<x>>, 0, FALSE) :
        type \in {"rich_text", "select", "date", "url", "email",
                  "phone_number", "formula", "title"},
        x \in SampleTexts }
    \cup { Prop(type, "value", runs, 0, FALSE) :
        type \in {"rich_text", "multi_select", "relation"},
        runs \in { <<>>, << <<"a">>, <<"b">> >> } }
    \cup { Prop("number", "value", <<>>, n, FALSE) : n \in {0, 7} }
    \cup { Prop("checkbox", "value", <<>>, 0, b) : b \in BOOLEAN }

CallExtractPropertyValue ==
    /\ Calling("extractPropertyValue")
    /\ probe' = Returned("extractPropertyValue", probe.arg,
                          extractPropertyValue(probe.arg))
    /\ UNCHANGED <<notion, jobs, progressStreams, consumers, disk>>

\* n times the character c
Repeat(c, n) == [i \in 1..n |-> c]

\* strings at and around the length limit of an unquoted header value
LongTexts ==
    { Repeat("a", HeaderQuoteLimit), Repeat("a", HeaderQuoteLimit + 1),
      Repeat("a", HeaderQuoteLimit - 1) \o <<"\"">> }

HeaderProperties ==
    SampleProperties
    \cup { Prop("rich_text", "value", <<x>>, 0, FALSE) : x \in LongTexts }

PropertyNames == { <<"K">>, <<"k", "2">> }

\* one turn of the property loop of convertPageToMarkdown
CallHeaderLine ==
    /\ Calling("HeaderLine")
    /\ probe' = Returned("HeaderLine", probe.arg,
                          HeaderLine(probe.arg.key, probe.arg.property))
    /\ UNCHANGED <<notion, jobs, progressStreams, consumers, disk>>

SampleBlocks ==
    { Block(type, TRUE, << <<"a">> >>, <<>>) :
        type \in {"paragraph", "heading_1", "heading_2", "heading_3",
                  "bulleted_list_item", "numbered_list_item", "quote",
                  "code", "callout"} }
    \cup { Block("numbered_list_item", TRUE, << <<"b">>, <<"c">> >>, <<>>),
           Block("code", TRUE, << <<"a">> >>, <<"j", "s">>),
           Block("paragraph", FALSE, <<>>, <<>>),
           Block("callout", TRUE, <<>>, <<>>),
           Block("divider", FALSE, <<>>, <<>>) }

\* the sequences of at most n blocks
BlockLists(n) == UNION { [1..k -> SampleBlocks] : k \in 0..n }

CallConvertBlocksToMarkdown ==
    /\ Calling("convertBlocksToMarkdown")
    /\ probe' = Returned("convertBlocksToMarkdown", probe.arg,
                          convertBlocksToMarkdown(probe.arg))
    /\ UNCHANGED <<notion, jobs, progressStreams, consumers, disk>>

\* the properties a sample record may have besides its title
PageProperties ==
    { Prop("rich_text", "value", << <<"a">> >>, 0, FALSE),
      Prop("rich_text", "value", << <<"a", ":", "b">> >>, 0, FALSE),
      Prop("rich_text", "undefined", <<>>, 0, FALSE),
      Prop("multi_select", "value", << <<"a">>, <<"b">> >>, 0, FALSE),
      Prop("number", "value", <<>>, 0, FALSE),
      Prop("number", "value", <<>>, 7, FALSE),
      Prop("checkbox", "value", <<>>, 0, FALSE),
      Prop("checkbox", "value", <<>>, 0, TRUE),
      Prop("formula", "value", << <<"a">> >>, 0, FALSE) }

\* the name of the property at position i of the map
PropertyKey(i) == <<"k", ToString(i)>>

SamplePages ==
    { [id |-> id,
       others |-> [i \in 1..k |-> [key |-> PropertyKey(i), property |-> ps[i]]],
       blocks |-> blocks] :
        id \in {1, 2, 5, 11},
        k \in 0..MaxProps,
        ps \in [1..MaxProps -> PageProperties],
        blocks \in { <<>>, <<Block("paragraph", TRUE, << <<"a">> >>, <<>>),
                             Block("numbered_list_item", TRUE, << <<"b">> >>, <<>>)>> } }

\* convertPageToMarkdown up to the call of fs.writeFile, with the blocks
\* getPageBlocks returned
CallConvertPageToMarkdown ==
    /\ Calling("convertPageToMarkdown")
    /\ probe' = Returned("convertPageToMarkdown", probe.arg,
                          convertPageToMarkdown(probe.arg))
    /\ UNCHANGED <<notion, jobs, progressStreams, consumers, disk>>

\* the declared non-title property names of the database
Schemas == { [i \in 1..n |-> PropertyKey(i)] : n \in 0..MaxProps }

Entry(i, property) == [key |-> PropertyKey(i), property |-> property]

\* a value with a '|' at the cut of a table cell
LongCell == Repeat("a", TableCellLimit - 1) \o <<"|", "b">>

\* sample records of a batch rendered into one document
BatchPages ==
    { [id |-> 1, blocks |-> <<>>,
       others |-> <<Entry(1, Prop("rich_text", "value", << <<"a", "|", "b">> >>, 0, FALSE)),
                    Entry(2, Prop("number", "null", <<>>, 0, FALSE))>>],
      [id |-> 6, blocks |-> <<>>,
       others |-> <<Entry(1, Prop("rich_text", "value", << <<"a", "\n", "b">> >>, 0, FALSE))>>],
      [id |-> 11, blocks |-> <<>>, others |-> <<>>],
      [id |-> 5, blocks |-> <<>>,
       others |-> <<Entry(2, Prop("checkbox", "value", <<>>, 0, FALSE)),
                    Entry(1, Prop("rich_text", "value", <<LongCell>>, 0, FALSE))>>],
      [id |-> 2, blocks |-> <<>>,
       others |-> <<Entry(2, Prop("multi_select", "value", << <<"a">>, <<"b">> >>, 0, FALSE))>>] }

\* a record with one property more than the table view shows, and a record
\* whose block listing is unreachable
WidePages ==
    { [id |-> 11, blocks |-> <<>>,
       others |-> [i \in 1..OrderLimit + 1 |->
                     Entry(i, Prop("rich_text", "value", << <<"a">> >>, 0, FALSE))]],
      [id |-> 3, blocks |-> <<>>,
       others |-> <<Entry(3, Prop("rich_text", "value", << <<"a">> >>, 0, FALSE))>>] }

\* the batches of at most n records for the view definition
BaseBatches(n) == UNION { [1..k -> BatchPages \cup WidePages] : k \in 0..n }

\* convertToObsidianBase on a batch whose records have no malformed member
CallConvertToObsidianBase ==
    /\ Calling("convertToObsidianBase")
    /\ probe' = Returned("convertToObsidianBase", probe.arg,
                          convertToObsidianBase(probe.arg))
    /\ UNCHANGED <<notion, jobs, progressStreams, consumers, disk>>

\* the batches of at most n records
Batches(n) == UNION { [1..k -> BatchPages] : k \in 0..n }

\* the row loop of convertToMarkdownTable
CallConvertToMarkdownTable ==
    /\ Calling("convertToMarkdownTable")
    /\ probe' = Returned("convertToMarkdownTable", probe.arg,
                          convertToMarkdownTable(probe.arg.schema, probe.arg.pages))
    /\ UNCHANGED <<notion, jobs, progressStreams, consumers, disk>>

CallSanitizeFilename ==
    /\ Calling("sanitizeFilename")
    /\ probe' = Returned("sanitizeFilename", probe.arg, sanitizeFilename(probe.arg))
    /\ UNCHANGED <<notion, jobs, progressStreams, consumers, disk>>

InitHelpers ==
    /\ Quiescent
    /\ \/ \E x \in Texts(MaxText) : probe = Pending("sanitizeFilename", x)
       \/ \E p \in SampleProperties : probe = Pending("extractPropertyValue", p)
       \/ \E blocks \in BlockLists(MaxBlocks) :
             probe = Pending("convertBlocksToMarkdown", blocks)
       \/ \E page \in SamplePages : probe = Pending("convertPageToMarkdown", page)
       \/ \E pages \in BaseBatches(MaxRows) : probe = Pending("convertToObsidianBase", pages)
       \/ \E schema \in Schemas, pages \in Batches(MaxRows) :
             probe = Pending("convertToMarkdownTable", [schema |-> schema, pages |-> pages])
       \/ \E key \in PropertyNames, p \in HeaderProperties :
             probe = Pending("HeaderLine", [key |-> key, property |-> p])

NextHelpers ==
    \/ CallSanitizeFilename
    \/ CallExtractPropertyValue
    \/ CallHeaderLine
    \/ CallConvertBlocksToMarkdown
    \/ CallConvertPageToMarkdown
    \/ CallConvertToMarkdownTable
    \/ CallConvertToObsidianBase

SpecHelpers == InitHelpers /\ [][NextHelpers]_vars

----------------------------------------------------------------------------
(* Properties *)

Last(s) == s[Len(s)]

\* the set of the elements of a sequence
Range(s) == {s[k] : k \in 1..Len(s)}

\* C1: within one job with a correlation id, the progress values passed to
\* sendProgress are non-decreasing and every value lies in 0..100, for each
\* strategy, any number of fetched pages and any pattern of record failures
ProgressMonotoneInRange ==
    \A j \in Jobs :
        LET e == jobs[j].emitted IN
        \A a \in 1..Len(e) :
            /\ e[a].progress \in 0..100
            /\ a < Len(e) => e[a].progress <= e[a + 1].progress

\* a finished aggregate-query job over more than ten records, some of them
\* failed, with updates from every phase
ProgressMonotoneWitness ==
    \E j \in Jobs :
        /\ jobs[j].response = "success"
        /\ jobs[j].format = "dataview-table"
        /\ Len(jobs[j].fetched) >= 2
        /\ Len(jobs[j].pages) > 10
        /\ jobs[j].raised > 0
        /\ Len(jobs[j].emitted) > 9

PerRecordProducesNMinusM ==
    \A j \in Jobs :
        LET n == Len(jobs[j].pages)
            m == jobs[j].raised IN
        (jobs[j].format = "separate-pages" /\ jobs[j].pc = "done"
            /\ jobs[j].lastPage /\ jobs[j].ioErrors = 0) =>
            /\ jobs[j].response = "success"
            /\ Len(jobs[j].convertedFiles) = n - m
            /\ jobs[j].filesCreated = n - m
            /\ Cardinality(Range(jobs[j].writes)) = n - m

\* C4 as stated: a failure to create the output directory or to write a
\* file, a per-record document included, gives the failure response
IoFailureIsFatal ==
    \A j \in Jobs :
        (jobs[j].pc = "done" /\ jobs[j].ioErrors > 0)
            => jobs[j].response = "failure"

\* C5 as stated: in each of the four strategies a failure while processing a
\* single record never aborts the batch: unless a request to the record
\* source, the directory creation or an aggregate write failed, the job
\* returns success
RecordFailureNeverAborts ==
    \A j \in Jobs :
        (jobs[j].pc = "done" /\ notion
            /\ jobs[j].failedBy \notin {"request", "query", "mkdir", "write"})
            => jobs[j].response = "success"

\* C6: without a configured record-source client the request returns the
\* configuration error at once: no update, no request, no directory, no file
ConfigErrorBeforeAnything ==
    \A j \in Jobs :
        /\ (~notion /\ jobs[j].pc # "idle") =>
              (jobs[j].pc = "done" /\ jobs[j].response = "config_error")
        /\ jobs[j].response = "config_error" =>
              /\ ~notion
              /\ jobs[j].emitted = <<>>
              /\ ~jobs[j].contacted
              /\ jobs[j].requests = <<>>
              /\ jobs[j].fetched = <<>>
              /\ jobs[j].blockFetches = <<>>
              /\ jobs[j].mkdirs = 0
              /\ jobs[j].ioErrors = 0
              /\ jobs[j].writes = <<>>
              /\ \A k \in Consumers : consumers[k].received = <<>>

\* the configuration error was returned to a request that had a correlation
\* id with a consumer registered for it
ConfigErrorWitness ==
    \E j \in Jobs :
        /\ jobs[j].response = "config_error"
        /\ jobs[j].conversionId # NoId
        /\ progressStreams[jobs[j].conversionId] # NoConsumer

StageRank(stage) ==
    CASE stage = "starting"   -> 1
      [] stage = "searching"  -> 2
      [] stage = "retrieving" -> 3
      [] stage = "querying"   -> 4
      [] stage = "converting" -> 5
      [] stage = "complete"   -> 6

\* C7: the stages of the updates of one job, in emission order, follow
\* starting, searching, retrieving, querying, converting, complete: never
\* backwards, and complete at most once and only as the last update
StagesInOrder ==
    \A j \in Jobs :
        LET e == jobs[j].emitted IN
        /\ e # <<>> => e[1].stage = "starting"
        /\ \A a \in 1..Len(e) :
              /\ a < Len(e) => StageRank(e[a].stage) <= StageRank(e[a + 1].stage)
              /\ e[a].stage = "complete" => a = Len(e)

\* a finished job whose updates went through all six stages, with several
\* updates in the querying and converting stages
StagesInOrderWitness ==
    \E j \in Jobs :
        /\ jobs[j].response = "success"
        /\ {u.stage : u \in Range(jobs[j].emitted)} =
              {"starting", "searching", "retrieving", "querying",
               "converting", "complete"}
        /\ Len(jobs[j].emitted) >= 10

RECURSIVE Flatten(_)
\* the concatenation of the results of a sequence of page responses
Flatten(responses) ==
    IF responses = <<>> THEN <<>>
    ELSE Head(responses).results \o Flatten(Tail(responses))

\* the pagination loop is awaiting a response, or was when the job failed
AwaitingPage(j) == jobs[j].pc = "query" \/ jobs[j].failedBy = "query"

\* C8: the record list is the concatenation, in request order, of the
\* results of every fetched page, duplicates kept; the first request has no
\* cursor, each later one the cursor of the preceding response; the loop
\* stops at, and only at, the first response without a next cursor
PaginationConcatenates ==
    \A j \in Jobs :
        LET f == jobs[j].fetched
            r == jobs[j].requests IN
        /\ jobs[j].pages = Flatten(f)
        /\ r # <<>> => r[1] = NoCursor
        /\ \A k \in 2..Len(r) :
              r[k] = f[k - 1].next_cursor /\ r[k] # NoCursor
        /\ Len(r) = Len(f) + (IF AwaitingPage(j) THEN 1 ELSE 0)
        /\ \A k \in 1..(Len(f) - 1) : f[k].next_cursor # NoCursor
        /\ f # <<>> => (Last(f).next_cursor = NoCursor <=> ~AwaitingPage(j))

\* three pages were fetched under two different cursors, two of the pages
\* carried the same records, and the loop has stopped
PaginationWitness ==
    \E j \in Jobs :
        LET f == jobs[j].fetched IN
        /\ Len(f) >= 3
        /\ jobs[j].pc = "mkdir"
        /\ f[1].next_cursor # f[2].next_cursor
        /\ f[1].results # <<>>
        /\ f[1].results = f[2].results

\* C9: no block fetch, directory creation or file write happens before the
\* page response without next cursor has arrived; a job whose page fetch
\* fails returns failure, with no directory created and no file written
NothingBeforeLastPage ==
    \A j \in Jobs :
        /\ ( \/ jobs[j].blockFetches # <<>>
             \/ jobs[j].mkdirs > 0
             \/ jobs[j].ioErrors > 0
             \/ jobs[j].writes # <<>>
             \/ jobs[j].convertedFiles # <<>>
             \/ jobs[j].pc \in {"mkdir", "blocks", "write", "tablewrite", "basewrite"} )
           => jobs[j].lastPage
        /\ jobs[j].failedBy = "query" =>
              /\ jobs[j].pc = "done"
              /\ jobs[j].response = "failure"
              /\ ~jobs[j].lastPage
              /\ jobs[j].filesCreated = 0

\* a page fetch failed after earlier pages had delivered records
PageFetchFailsWitness ==
    \E j \in Jobs :
        /\ jobs[j].failedBy = "query"
        /\ Len(jobs[j].fetched) >= 2
        /\ Len(jobs[j].pages) > 0

\* C10 as stated: once the job with id c has returned its response the
\* registry holds no entry registered for c before that, and after a consumer
\* has disconnected the registry holds no entry for that consumer
RegistryClearedOnCompletion ==
    /\ \A j \in Jobs :
          (jobs[j].response \in {"success", "failure"}
              /\ jobs[j].conversionId # NoId) =>
              LET res == progressStreams[jobs[j].conversionId] IN
              res = NoConsumer \/ consumers[res].late
    /\ \A k \in Consumers :
          consumers[k].state = "closed" =>
              progressStreams[consumers[k].id] # k

\* the job as seen by the record source, the file system and the client
Observable(j) == [jobs[j] EXCEPT !.conversionId = NoId]

\* the causes the outer catch can see
Causes == {"none", "request", "query", "mkdir", "write", "record"}

\* C11: progress delivery never influences the conversion: the job whose
\* consumer registers, disconnects or breaks at any moment and the job
\* nobody ever listens to make the same record-source requests, write the
\* same files and return the same response, and an update emitted with no
\* consumer registered is dropped without an error.
DeliveryNeverInfluencesJob ==
    /\ Observable(1) = Observable(2)
    /\ Observable(1).requests = Observable(2).requests
    /\ Observable(1).writes = Observable(2).writes
    /\ Observable(1).response = Observable(2).response
    /\ \A j \in TwinJobs : jobs[j].failedBy \in Causes
    /\ progressStreams[2] = NoConsumer

\* the consumer of job 1 received some updates and disconnected while the
\* job ran; both jobs wrote files and returned success
DeliveryWitness ==
    /\ \A j \in TwinJobs : jobs[j].response = "success" /\ jobs[j].writes # <<>>
    /\ \E k \in Consumers :
          /\ consumers[k].state = "closed"
          /\ ~consumers[k].late
          /\ consumers[k].received # <<>>
          /\ Len(consumers[k].received) < Len(jobs[1].emitted)
    /\ Len(jobs[2].emitted) = Len(jobs[1].emitted)

\* C12: when the write to a registered channel raises, sendProgress removes
\* the entry of that conversionId and the job goes on: nothing is delivered
\* to the broken channel then or later, and the job stays equal to the one
\* that met no delivery error (files written, response returned).
BrokenChannelIsDropped ==
    [][\A k \in Consumers :
          /\ (/\ consumers[k].state = "open"
              /\ consumers[k].broken
              /\ progressStreams[consumers[k].id] = k
              /\ jobs[1].conversionId = consumers[k].id
              /\ jobs'[1].emitted # jobs[1].emitted)
             => /\ progressStreams'[consumers[k].id] = NoConsumer
                /\ Observable(1)' = Observable(2)'
                /\ jobs'[1].failedBy \in Causes
          /\ consumers[k].broken => consumers'[k].received = consumers[k].received
      ]_vars

\* the channel broke after some updates, the next update removed the entry
\* while the consumer stayed connected, and the job ended in success
BrokenChannelWitness ==
    \E k \in Consumers :
        /\ consumers[k].state = "open"
        /\ consumers[k].broken
        /\ ~consumers[k].late
        /\ consumers[k].received # <<>>
        /\ progressStreams[consumers[k].id] = NoConsumer
        /\ jobs[1].pc = "write"
        /\ jobs[1].writes # <<>>
        /\ Len(consumers[k].received) < Len(jobs[1].emitted)

\* the record is converted to a document: nothing raises on the way
Converts(id) ==
    /\ ~Malformed(id)
    /\ ~BlocksUnreachable(id)
    /\ PageFileName(id) \notin Unwritable

\* a record's conversion is under way: its blocks or its write are awaited
InFlight(j) == jobs[j].pc \in {"blocks", "write"}

\* how many records of the batch the record loop has finished with
Settled(j) ==
    IF InFlight(j) THEN jobs[j].i
    ELSE IF jobs[j].blockFetches = <<>> /\ jobs[j].raised = 0 THEN 0
    ELSE Len(jobs[j].pages)

\* C13: records are converted one after another in batch order: the blocks
\* of record i+1 are requested only when every record up to i has been
\* written or has failed, at most one record is in flight, and the record
\* documents are written in batch order.
RecordsOneAtATime ==
    \A j \in Jobs :
        LET job == jobs[j]
            done == SubSeq(job.pages, 1, Settled(j))
            started == SubSeq(job.pages, 1, Settled(j) + (IF InFlight(j) THEN 1 ELSE 0))
            WellFormed(id) == ~Malformed(id)
            Failed(id) == ~Converts(id)
            written == SelectSeq(done, Converts)
            IsRecordFile(name) == name \notin {TableFileName, BaseFileName}
            recordFiles == SelectSeq(job.writes, IsRecordFile)
        IN /\ InFlight(j) => job.i < Len(job.pages)
           /\ job.blockFetches = SelectSeq(started, WellFormed)
           /\ recordFiles = [k \in 1..Len(written) |-> PageFileName(written[k])]
           /\ job.raised = Len(SelectSeq(done, Failed))
           /\ Len(job.blockFetches)
                <= Len(recordFiles) + job.raised + (IF InFlight(j) THEN 1 ELSE 0)

\* the third record of a batch is in flight after one record was written and
\* one failed
RecordsOneAtATimeWitness ==
    \E j \in Jobs :
        /\ jobs[j].pc = "write"
        /\ jobs[j].i = 2
        /\ Len(jobs[j].convertedFiles) = 1
        /\ jobs[j].raised = 1
        /\ Len(jobs[j].pages) > 3

\* C14: no file name written by a job is written again later in the job.
EveryFileWrittenOnce ==
    \A j \in Jobs :
        \A a, b \in 1..Len(jobs[j].writes) :
            a # b => jobs[j].writes[a] # jobs[j].writes[b]

\* the whitespace runs of s: the positions where one starts
WhitespaceRuns(s) ==
    { i \in 1..Len(s) : s[i] \in Whitespace /\ (i = 1 \/ s[i - 1] \notin Whitespace) }

\* C15: the result of sanitizeFilename holds none of < > : " / \ | ? * and no
\* whitespace, every whitespace run of the input has become one '_', and
\* sanitizing the result again changes nothing.
SanitizedIsCleanAndStable ==
    Called("sanitizeFilename") =>
        LET x == probe.arg
            y == probe.out
        IN /\ \A i \in 1..Len(y) : y[i] \notin ReservedChars \cup Whitespace
           /\ Len(y) = Cardinality({ i \in 1..Len(x) : x[i] \notin Whitespace })
                        + Cardinality(WhitespaceRuns(x))
           /\ sanitizeFilename(y) = y

\* a name with a reserved character and a whitespace run of two was sanitized
SanitizedWitness ==
    /\ Called("sanitizeFilename")
    /\ \E i \in 1..Len(probe.arg) : probe.arg[i] \in ReservedChars
    /\ \E i \in 1..Len(probe.arg) - 1 :
          probe.arg[i] \in Whitespace /\ probe.arg[i + 1] \in Whitespace
    /\ Len(probe.out) < Len(probe.arg)

\* C16: for a property whose kind is none of the known kinds,
\* extractPropertyValue returns the empty string and does not raise.
UnknownKindYieldsEmpty ==
    (Called("extractPropertyValue") /\ probe.arg.type \notin KnownKinds)
        => probe.out = Str(<<>>)

\* a property of an unknown kind whose sub-field is missing was extracted
UnknownKindWitness ==
    /\ Called("extractPropertyValue")
    /\ probe.arg.type = "formula"
    /\ probe.arg.sub = "undefined"
    /\ probe.out = Str(<<>>)

\* C17: for a property of a known kind whose value sub-field is absent,
\* extractPropertyValue returns the empty string.
AbsentYieldsEmpty ==
    (Called("extractPropertyValue") /\ probe.arg.type \in KnownKinds
                                    /\ probe.arg.sub # "value")
        => probe.out = Str(<<>>)

\* C18: a non-title property value that contains a colon, contains a
\* newline, or is longer than 100 characters is emitted between double quotes.
HeaderValueQuoted ==
    Called("HeaderLine") =>
        LET key == probe.arg.key
            value == extractPropertyValue(probe.arg.property)
            line == probe.out
        IN (/\ probe.arg.property.type # "title"
            /\ Truthy(value)
            /\ \/ Includes(String(value), ":")
               \/ Includes(String(value), "\n")
               \/ Len(String(value)) > HeaderQuoteLimit)
           => /\ Len(line) >= Len(key) + 5
              /\ SubSeq(line, 1, Len(key) + 3) = key \o <<":", " ", "\"">>
              /\ SubSeq(line, Len(line) - 1, Len(line)) = <<"\"", "\n">>
              /\ ~Includes(SubSeq(line, 1, Len(line) - 1), "\n")

\* the lines that end a chunk
OneNewline == <<"\n">>
BlankLine == <<"\n", "\n">>

\* the chunk the block contributes, by its kind alone
ExpectedChunk(block) ==
    LET text == IF block.present THEN Join(block.runs, <<>>) ELSE <<>>
        level == CASE block.type = "heading_1" -> 1
                   [] block.type = "heading_2" -> 2
                   [] block.type = "heading_3" -> 3
                   [] OTHER -> 0
    IN IF block.type = "paragraph" THEN text \o BlankLine
       ELSE IF level > 0 THEN [i \in 1..level |-> "#"] \o <<" ">> \o text \o BlankLine
       ELSE IF block.type = "bulleted_list_item" THEN <<"-", " ">> \o text \o OneNewline
       ELSE IF block.type = "numbered_list_item" THEN <<"1", ".", " ">> \o text \o OneNewline
       ELSE IF block.type = "code"
            THEN Fence \o block.language \o OneNewline \o text \o OneNewline
                 \o Fence \o BlankLine
       ELSE IF block.type = "quote" THEN <<">", " ">> \o text \o BlankLine
       ELSE IF text # <<>> THEN text \o BlankLine
       ELSE <<>>

RECURSIVE ConcatChunks(_)
ConcatChunks(blocks) ==
    IF blocks = <<>> THEN <<>>
    ELSE ExpectedChunk(Head(blocks)) \o ConcatChunks(Tail(blocks))

\* C20: the output of convertBlocksToMarkdown is the concatenation, in input
\* order, of one chunk per block that depends on that block alone (a numbered
\* item always starts with '1. '), so the rendering of xs followed by ys is
\* the rendering of xs followed by the rendering of ys.
RenderIsChunkConcatenation ==
    Called("convertBlocksToMarkdown") =>
        /\ probe.out = ConcatChunks(probe.arg)
        /\ \A k \in 0..Len(probe.arg) :
              probe.out = convertBlocksToMarkdown(SubSeq(probe.arg, 1, k))
                          \o convertBlocksToMarkdown(SubSeq(probe.arg, k + 1, Len(probe.arg)))

\* two numbered items in a row were rendered, each as '1. '
RenderWitness ==
    /\ Called("convertBlocksToMarkdown")
    /\ Len(probe.arg) = 2
    /\ probe.arg[1].type = "numbered_list_item"
    /\ probe.arg[2].type = "numbered_list_item"
    /\ probe.arg[1] # probe.arg[2]
    /\ Len(probe.out) > 4
    /\ probe.out[1] = "1"
    /\ \E i \in 2..Len(probe.out) - 1 :
          probe.out[i] = "\n" /\ probe.out[i + 1] = "1"

\* an extracted value that is not empty: text, a number or a boolean
NonEmpty(v) == v.t \in {"number", "boolean"} \/ (v.t = "string" /\ v.s # <<>>)

RECURSIVE ExpectedHeader(_)
\* one line per non-title property whose extracted value is not empty, in
\* the order of the property map; the value is escaped as HeaderLine does
ExpectedHeader(properties) ==
    IF properties = <<>> THEN <<>>
    ELSE LET key == Head(properties).key
             property == Head(properties).property
             value == extractPropertyValue(property)
             cleanValue == EscapeQuotes(ReplaceNewlines(String(value)))
             quoted == Includes(cleanValue, ":") \/ Len(cleanValue) > HeaderQuoteLimit
         IN (IF property.type # "title" /\ NonEmpty(value)
             THEN key \o <<":", " ">>
                  \o (IF quoted THEN <<"\"">> \o cleanValue \o <<"\"">> ELSE cleanValue)
                  \o <<"\n">>
             ELSE <<>>)
            \o ExpectedHeader(Tail(properties))

\* C19: the record document is the '---' line, notion_id, created, updated,
\* one '<name>: <value>' line per non-title property whose extracted value
\* is not empty (none for the title or for an empty value) in map order, the
\* '---' line, a blank line, '# <title>', a blank line and the rendered
\* blocks; its file name is sanitizeFilename(title) followed by '.md'.
RecordDocumentLayout ==
    Called("convertPageToMarkdown") =>
        LET page == probe.arg IN
        /\ probe.out.markdown =
             <<"---", "\n">>
             \o <<"notion_id", ":", " ", ToString(page.id), "\n">>
             \o <<"created", ":", " ">> \o CreatedTime(page.id) \o <<"\n">>
             \o <<"updated", ":", " ">> \o LastEditedTime(page.id) \o <<"\n">>
             \o ExpectedHeader(Properties(page))
             \o <<"---", "\n", "\n">>
             \o <<"#", " ">> \o PageTitle(page.id) \o <<"\n", "\n">>
             \o convertBlocksToMarkdown(page.blocks)
        /\ probe.out.fileName = sanitizeFilename(PageTitle(page.id)) \o <<".md">>

\* C21: wherever a run array is read, the text is the concatenation of the
\* plain text of all its runs in order: in every block, in a rich_text
\* property, and in the title from which the '# <title>' line and the file
\* name of a record are made.
RunsAreJoinedEverywhere ==
    /\ Called("convertBlocksToMarkdown") => probe.out = ConcatChunks(probe.arg)
    /\ (Called("extractPropertyValue") /\ probe.arg.type = "rich_text"
                                       /\ probe.arg.sub = "value")
         => probe.out = Str(Join(probe.arg.runs, <<>>))
    /\ (Called("convertPageToMarkdown") /\ Join(TitleRuns(probe.arg.id), <<>>) # <<>>)
         => LET title == Join(TitleRuns(probe.arg.id), <<>>)
                heading == <<"#", " ">> \o title \o <<"\n", "\n">>
                markdown == probe.out.markdown
            IN /\ probe.out.fileName = sanitizeFilename(title) \o <<".md">>
               /\ \E i \in 1..Len(markdown) :
                     /\ i + Len(heading) - 1 <= Len(markdown)
                     /\ SubSeq(markdown, i, i + Len(heading) - 1) = heading

\* the data rows of the table are the rows of the records in batch order,
\* each with the given number of cells beside those of the schema
TableShape(extra) ==
    Called("convertToMarkdownTable") =>
        LET schema == probe.arg.schema
            pages == probe.arg.pages
            rows == probe.out.rows
        IN /\ Len(rows) = Len(pages)
           /\ Len(probe.out.lines) = Len(pages)
           /\ \A k \in 1..Len(rows) :
                 /\ Len(rows[k]) = extra + Len(schema)
                 /\ rows[k][1] = RowTitle(pages[k])
                 /\ probe.out.lines[k] = RowText(rows[k])

UnescapedPipes(line) ==
    { i \in 1..Len(line) : line[i] = "|" /\ (i = 1 \/ line[i - 1] # "\\") }

\* C23: no data row of the table holds an unescaped '|' besides the column
\* delimiters, truncated values included.
NoUnescapedPipeInRow ==
    Called("convertToMarkdownTable") =>
        \A k \in 1..Len(probe.out.lines) :
            Cardinality(UnescapedPipes(probe.out.lines[k]))
                = Len(probe.arg.schema) + 4

RECURSIVE AllEntries(_)
\* the property entries of the batch: records in batch order, the entries
\* of a record in map order
AllEntries(pages) ==
    IF pages = <<>> THEN <<>>
    ELSE Properties(Head(pages)) \o AllEntries(Tail(pages))

\* the names listed in the properties: section before file.ctime, file.mtime
Listed == SubSeq(probe.out.properties, 1, Len(probe.out.properties) - 2)

\* C24: a non-title property whose values are all empty is not in the
\* properties: section, and one with a non-empty value in some record is.
UsedIffSomeValue ==
    Called("convertToObsidianBase") =>
        LET entries == AllEntries(probe.arg) IN
        \A e \in 1..Len(entries) :
            (\E i \in 1..Len(Listed) : Listed[i] = entries[e].key)
            <=> (\E f \in 1..Len(entries) :
                    /\ entries[f].key = entries[e].key
                    /\ entries[f].property.type # "title"
                    /\ NonEmpty(extractPropertyValue(entries[f].property)))

\* the entry at position e of the scan makes its property a used one
Observed(entries, e) ==
    /\ entries[e].property.type # "title"
    /\ HasActualValue(extractPropertyValue(entries[e].property))

\* where the scan first observes the property
FirstObserved(entries, key) ==
    CHOOSE e \in 1..Len(entries) :
        /\ entries[e].key = key /\ Observed(entries, e)
        /\ \A f \in 1..e - 1 : ~(entries[f].key = key /\ Observed(entries, f))

ListedPropertiesOccurInNotes ==
    Called("convertToObsidianBase") =>
        \A i \in 1..Len(Listed) :
            \E note \in probe.out.notes :
                \E e \in 1..Len(Properties(note.page)) :
                    LET entry == Properties(note.page)[e] IN
                    /\ entry.key = Listed[i]
                    /\ HeaderLine(entry.key, entry.property) # <<>>

\* the upper end of the range of the per-record phase
PhaseEnd(format) == IF format = "separate-pages" THEN 90 ELSE 80

\* v is round(lo + ((i + 1) / n) * (hi - lo))
IsInterpolation(v, lo, hi, i, n) ==
    LET twice == 2 * (lo * n + (i + 1) * (hi - lo)) + n
    IN 2 * n * v <= twice /\ twice < 2 * n * (v + 1)

\* the updates the step appends to those the job has emitted
Appended(j) ==
    SubSeq(jobs'[j].emitted, Len(jobs[j].emitted) + 1, Len(jobs'[j].emitted))

\* the step ends the conversion of the record at index jobs[j].i
EndsRecord(j) ==
    /\ jobs[j].conversionId # NoId
    /\ jobs[j].pc \in {"blocks", "write"}
    /\ jobs'[j] # jobs[j]
    /\ jobs'[j].pc # "write"

\* the step writes the document of the record at index jobs[j].i
WritesRecord(j) == EndsRecord(j) /\ Len(jobs'[j].writes) > Len(jobs[j].writes)

\* the first appended update is the one of the record at index jobs[j].i
ReportsInterpolation(j) ==
    /\ Appended(j) # <<>>
    /\ Appended(j)[1].stage = "converting"
    /\ IsInterpolation(Appended(j)[1].progress, 50, PhaseEnd(jobs[j].format),
                       jobs[j].i, Len(jobs[j].pages))

\* the appended updates after the first k belong to what follows the loop
OnlyLaterPhases(j, k) ==
    \A m \in k + 1..Len(Appended(j)) :
        Appended(j)[m].stage = "complete" \/ Appended(j)[m].progress = 85

----------------------------------------------------------------------------
(* Several consumers and several jobs *)

\* C27 as stated: a consumer's disconnect removes only the channel that this
\* consumer registered; an entry that a second consumer has set under the same
\* id afterwards is still there after the first consumer's close event.
DisconnectRemovesOnlyOwnChannel ==
    [][\A k \in ManyConsumers :
          (consumers[k].state = "open" /\ consumers'[k].state = "closed") =>
              \A id \in ManyJobs :
                  progressStreams[id] # k =>
                      progressStreams'[id] = progressStreams[id]]_vars

\* s is the end of t
IsSuffixOf(s, t) ==
    /\ Len(s) <= Len(t)
    /\ s = SubSeq(t, Len(t) - Len(s) + 1, Len(t))

\* how many of the updates of s are the final one
Finals(s) == Cardinality({ n \in 1..Len(s) : s[n] = Update("complete", 100) })

\* consumer k registered before job j returned, is still connected and its
\* channel writes succeed, and job j has succeeded
ListenedToTheEnd(k, j) ==
    /\ consumers[k].state = "open"
    /\ consumers[k].id = jobs[j].conversionId
    /\ ~consumers[k].late
    /\ ~consumers[k].broken
    /\ jobs[j].response = "success"

\* C28 as stated: a consumer that registers under id c before the job with id
\* c returns, stays connected and whose writes succeed has, once the job has
\* succeeded, received the final update exactly once, and what it received is
\* the end of what the job emitted.
FinalUpdateReachesConsumer ==
    \A k \in DOMAIN consumers, j \in DOMAIN jobs :
        ListenedToTheEnd(k, j) =>
            /\ Finals(consumers[k].received) = 1
            /\ Last(consumers[k].received) = Update("complete", 100)
            /\ IsSuffixOf(consumers[k].received, jobs[j].emitted)

\* C29: with jobs running under distinct ids, a step of job j writes the
\* update it emits to the channel registered under j's own id and to no
\* other, and leaves the registry entries of every other id as they were,
\* the step that completes the job included.
JobsKeepToTheirOwnId ==
    [][\A j \in ManyJobs :
          jobs'[j] # jobs[j] =>
              /\ \A k \in ManyConsumers :
                    consumers'[k] # consumers[k] =>
                        /\ progressStreams[jobs[j].conversionId] = k
                        /\ consumers'[k] =
                              [consumers[k] EXCEPT
                                  !.received = @ \o SubSeq(jobs'[j].emitted,
                                                      Len(jobs[j].emitted) + 1,
                                                      Len(jobs'[j].emitted))]
              /\ \A id \in ManyJobs \ {jobs[j].conversionId} :
                    progressStreams'[id] = progressStreams[id]]_vars

\* job 1 has completed and removed its entry after its consumer received the
\* final update, while job 2 is still converting and its consumer, still
\* registered, has received every update job 2 emitted
JobsKeepToTheirOwnIdWitness ==
    /\ jobs[1].conversionId # jobs[2].conversionId
    /\ jobs[1].response = "success"
    /\ progressStreams[jobs[1].conversionId] = NoConsumer
    /\ consumers[1].id = jobs[1].conversionId
    /\ consumers[1].received = jobs[1].emitted
    /\ jobs[2].pc = "blocks"
    /\ progressStreams[jobs[2].conversionId] = 2
    /\ consumers[2].state = "open"
    /\ Len(jobs[2].emitted) > 0
    /\ consumers[2].received = jobs[2].emitted

====
